---- MODULE Spec2Model ----
\* Model of VR-HSI/server.py: the serial acquisition loop (send_data), the
\* WebSocket registry and fan-out (ConnectionManager, websocket_endpoint) and
\* the shutdown hooks (cleanup_serial, signal_handler).
EXTENDS Integers, Sequences, FiniteSets, TLC

\* ------------------------------------------------------------------ bounds
\* Number of WebSocket connections made over the life of the process.
NumWS == 2
\* Number of well-formed samples the device delivers in the program model.
MaxReads == 1
\* Largest magnitude of a sample in the decoder model.
MaxMag == 160
\* Longest registry the registry model builds.
MaxReg == 3
\* Longest enumeration of serial ports in the resolver model.
MaxPorts == 3

\* --------------------------------------------------------------- constants
None == "None"
WS == 1..NumWS
Ports == {"p1", "p2"}

\* ------------------------------------------------- bytes, text and integers
\* A device line is a sequence of bytes; a byte is written as a one-character
\* string, and "xFF" stands for a byte that is not valid UTF-8.
Digits == <<"0", "1", "2", "3", "4", "5", "6", "7", "8", "9">>
DigitSet == {Digits[i] : i \in 1..10}
Whitespace == {" ", "\t", "\r", "\n"}

DigitVal(c) == (CHOOSE i \in 1..10 : Digits[i] = c) - 1

RECURSIVE DigitsVal(_)
DigitsVal(ds) ==
    IF ds = <<>> THEN 0
    ELSE DigitsVal(SubSeq(ds, 1, Len(ds) - 1)) * 10 + DigitVal(ds[Len(ds)])

RECURSIVE NatStr(_)
NatStr(n) ==
    IF n < 10 THEN <<Digits[n + 1]>>
    ELSE NatStr(n \div 10) \o <<Digits[(n % 10) + 1]>>

\* str(n) for an integer n.
PyStr(n) == IF n < 0 THEN <<"-">> \o NatStr(-n) ELSE NatStr(n)

\* bytes.decode('utf-8'): fails (UnicodeDecodeError, a ValueError) on an
\* invalid byte.
Utf8Ok(bytes) == \A i \in 1..Len(bytes) : bytes[i] # "xFF"

RECURSIVE LStrip(_)
LStrip(s) == IF s # <<>> /\ s[1] \in Whitespace THEN LStrip(Tail(s)) ELSE s

RECURSIVE RStrip(_)
RStrip(s) ==
    IF s # <<>> /\ s[Len(s)] \in Whitespace
    THEN RStrip(SubSeq(s, 1, Len(s) - 1))
    ELSE s

\* str.strip()
PyStrip(s) == RStrip(LStrip(s))

\* int(s): optional sign, then one or more decimal digits.
PyIntBody(s) == IF s # <<>> /\ s[1] \in {"+", "-"} THEN Tail(s) ELSE s
PyIntOk(s) ==
    LET b == PyIntBody(PyStrip(s))
    IN  b # <<>> /\ \A i \in 1..Len(b) : b[i] \in DigitSet
PyIntVal(s) ==
    LET t == PyStrip(s)
        v == DigitsVal(PyIntBody(t))
    IN  IF t[1] = "-" THEN -v ELSE v

\* emg_data = 1 if emg_value > 100 else 0
emg_data_at_least(emg_value) == IF emg_value >= 100 THEN 1 ELSE 0
emg_data(emg_value) == IF emg_value > 100 THEN 1 ELSE 0

\* The text handed to manager.broadcast for a sample.
FrameForRawValue(emg_value) == PyStr(emg_value)
FrameFor(emg_value) == PyStr(emg_data(emg_value))

\* The inner try of send_data on one line: "frame" with the text to
\* broadcast, or "ValueError" (reported, line dropped).
ProcessLineDefaultsToZero(bytes) ==
    IF Utf8Ok(bytes) /\ PyIntOk(bytes)
    THEN [kind |-> "frame", msg |-> FrameFor(PyIntVal(bytes))]
    ELSE [kind |-> "frame", msg |-> FrameFor(0)]
ProcessLine(bytes) ==
    IF ~Utf8Ok(bytes) THEN [kind |-> "ValueError", msg |-> <<>>]
    ELSE IF ~PyIntOk(bytes) THEN [kind |-> "ValueError", msg |-> <<>>]
    ELSE [kind |-> "frame", msg |-> FrameFor(PyIntVal(bytes))]

\* What the device writes for sample v: the decimal text and CR LF.
LineFor(v) == PyStr(v) \o <<"\r", "\n">>

\* Lines the device delivers in the program model.
GoodSamples == {100, 101}
GoodLines == {LineFor(v) : v \in GoodSamples}
BadLines == {<<>>, <<"\r", "\n">>, <<"a", "\n">>, <<"xFF", "1", "\n">>}
Lines == GoodLines \cup BadLines

\* ---------------------------------------------------------------- the state
VARIABLES
    global_serial,      \* the module global: the serial handle, or NoSerial
    port,               \* send_data: the bound port, or None
    retry_count,        \* send_data: the failure counter
    pc,                 \* send_data: where the loop is
    line,               \* send_data: the line read last
    message,            \* broadcast: the text being sent
    active_connections, \* ConnectionManager: the registry, a list
    bidx,               \* broadcast: next position of the list iterator
    connection,         \* broadcast: the connection being sent to, or 0
    to_remove,          \* broadcast: connections whose send raised
    darwin,             \* platform.system() == 'Darwin'
    hpc,                \* websocket_endpoint, per connection: where it is
    conn,               \* per connection: "open", or "closed" by the peer
    phase,              \* the process: "running", "exiting", "exited"
    recv,               \* observed: frames each connection was sent
    events,             \* observed: frames handed to broadcast, in order
    regAt,              \* observed: Len(events) when a connection registered
    passStart,          \* observed: the registry when the pass started
    passSent,           \* observed: connections sent to in this pass
    passFailed,         \* observed: connections whose send failed in this pass
    disturbed,          \* observed: a handler changed the registry mid-pass
    consecFail,         \* observed: serial failures since the port was bound
                        \*           or last opened
    openLog,            \* observed: outcomes of Serial() in this iteration
    reclaims,           \* observed: force_close_port calls in this iteration
    resolves,           \* observed: find_emg_port calls in this iteration
    sigOpen,            \* observed: the handle was open when the signal came
    shutdownCloses,     \* observed: close() calls made by cleanup_serial
    ops,                \* registry harness: the last two calls made
    before,             \* registry harness: the registry before the last
                        \*                   connect
    liveHandles,        \* observed: Serial objects opened and not closed
    comports            \* resolver harness: what comports() returned

devVars == <<global_serial, port, retry_count, liveHandles>>
loopVars == <<pc, line, message, bidx, connection, to_remove>>
regVars == <<active_connections, hpc, conn>>
passVars == <<passStart, passSent, passFailed, disturbed>>
iterVars == <<openLog, reclaims, resolves>>
harnessVars == <<ops, before, comports>>
obsVars == <<recv, events, regAt, passVars, consecFail, iterVars, sigOpen,
             shutdownCloses>>
vars == <<devVars, loopVars, regVars, darwin, phase, obsVars, harnessVars>>

NoSerial == [ref |-> FALSE, port |-> None, is_open |-> FALSE]
NoLine == <<"(unset)">>
NoMessage == <<>>
NoConnection == 0

\* serial.Serial(port=port, ...) that returned: an open handle on the port.
Serial(p) == [ref |-> TRUE, port |-> p, is_open |-> TRUE]

\* global_serial is None or not global_serial.is_open
AlwaysReconnect == TRUE
NeedConnect == ~global_serial.ref \/ ~global_serial.is_open

\* -------------------------------------------------------------- Port Resolver
USB == <<"U", "S", "B">>
common_identifiers ==
    { USB, <<"S", "e", "r", "i", "a", "l">>, <<"F", "T", "D", "I">>,
      <<"C", "H", "3", "4", "0">>, <<"C", "P", "2", "1", "0">> }

\* identifier in description (case-sensitive substring)
Contains(sub, s) ==
    \E i \in 0..(Len(s) - Len(sub)) : SubSeq(s, i + 1, i + Len(sub)) = sub

IsCandidate(entry) ==
    \E identifier \in common_identifiers : Contains(identifier, entry.description)

find_first_port(ports) ==
    IF ports = <<>> THEN None ELSE ports[1].device
find_emg_port(ports) ==
    IF ports = <<>> THEN None
    ELSE IF \E i \in 1..Len(ports) : IsCandidate(ports[i])
    THEN ports[CHOOSE i \in 1..Len(ports) :
                   /\ IsCandidate(ports[i])
                   /\ \A j \in 1..(i - 1) : ~IsCandidate(ports[j])].device
    ELSE ports[1].device

\* What serial.tools.list_ports.comports() may return.
Enumerations ==
    { <<>>,
      <<[device |-> "p1", description |-> <<"n", "/", "a">>]>>,
      <<[device |-> "p1", description |-> <<"u", "s", "b">>],
        [device |-> "p2", description |-> <<"F", "T", "D", "I", " ", "x">>]>> }

\* ------------------------------------------------------------------ registry
\* list.remove(x): the list without the first occurrence of x.
RECURSIVE ListRemove(_, _)
ListRemove(list, x) ==
    IF list = <<>> THEN <<>>
    ELSE IF list[1] = x THEN Tail(list)
    ELSE <<list[1]>> \o ListRemove(Tail(list), x)

InList(list, x) == \E i \in 1..Len(list) : list[i] = x

\* ConnectionManager.connect, after accept() returned.
connect(list, websocket) == Append(list, websocket)

\* ConnectionManager.disconnect: list.remove raises ValueError when the
\* connection is not in the list.
disconnect(list, websocket) ==
    IF InList(list, websocket)
    THEN [raised |-> FALSE, list |-> ListRemove(list, websocket)]
    ELSE [raised |-> TRUE, list |-> list]

\* The second loop of broadcast: disconnect each collected connection in
\* order; the first ValueError ends the loop.
RECURSIVE Prune(_, _)
PruneFirstOnly(list, failed) ==
    IF failed = <<>> THEN [raised |-> FALSE, list |-> list]
    ELSE disconnect(list, failed[1])
Prune(list, failed) ==
    IF failed = <<>> THEN [raised |-> FALSE, list |-> list]
    ELSE LET d == disconnect(list, failed[1])
         IN  IF d.raised THEN d ELSE Prune(d.list, Tail(failed))

\* ----------------------------------------------------------- shutdown hooks
\* cleanup_serial: closes the handle when there is one and it is open.
cleanup_serial_always_closes(gs) ==
    IF gs.ref
    THEN [gs |-> [gs EXCEPT !.is_open = FALSE], closes |-> 1]
    ELSE [gs |-> gs, closes |-> 0]
cleanup_serial(gs) ==
    IF gs.ref /\ gs.is_open
    THEN [gs |-> [gs EXCEPT !.is_open = FALSE], closes |-> 1]
    ELSE [gs |-> gs, closes |-> 0]

\* ------------------------------------------------------------------- Init
\* The state when the lifespan hook has created the manager and the task.
Init ==
    /\ global_serial = NoSerial
    /\ port = None
    /\ retry_count = 0
    /\ pc = "top"
    /\ line = NoLine
    /\ message = NoMessage
    /\ active_connections = <<>>
    /\ bidx = 1
    /\ connection = NoConnection
    /\ to_remove = <<>>
    /\ darwin \in BOOLEAN
    /\ hpc = [w \in WS |-> "idle"]
    /\ conn = [w \in WS |-> "open"]
    /\ phase = "running"
    /\ recv = [w \in WS |-> <<>>]
    /\ events = <<>>
    /\ regAt = [w \in WS |-> 0]
    /\ passStart = <<>>
    /\ passSent = {}
    /\ passFailed = {}
    /\ disturbed = FALSE
    /\ consecFail = 0
    /\ openLog = <<>>
    /\ reclaims = 0
    /\ resolves = 0
    /\ sigOpen = FALSE
    /\ shutdownCloses = 0
    /\ ops = <<>>
    /\ before = <<>>
    /\ liveHandles = 0
    /\ comports = <<>>

fanVars == <<message, bidx, connection, to_remove, active_connections, recv,
             events, passVars>>
envVars == <<darwin, hpc, conn, regAt, phase, sigOpen, shutdownCloses,
             harnessVars>>

\* ------------------------------------------------------ the acquisition loop
max_retries == 3

\* retry_count >= max_retries
RetryLimitExceeded(n) == n > max_retries
RetryLimitReached(n) == n >= max_retries

\* Lines 192-197: no port bound, so find_emg_port is called; without a
\* result the loop sleeps and starts over.
ResolveFrom(enumeration) ==
    /\ phase = "running" /\ pc = "top" /\ NeedConnect /\ port = None
    /\ LET found == find_emg_port(enumeration)
       IN  /\ port' = found
           /\ pc' = IF found = None THEN "sleep_nf" ELSE "open"
           /\ consecFail' = IF found = None THEN consecFail ELSE 0
    /\ resolves' = resolves + 1
    /\ UNCHANGED <<global_serial, liveHandles, retry_count, line, fanVars,
                   envVars, openLog, reclaims>>

Resolve == \E enumeration \in Enumerations : ResolveFrom(enumeration)

\* What a call of serial.Serial(...) can do: return, raise SerialException
\* with or without "Resource busy" in its text, raise something else.
OpenOutcomes == {"ok", "busy", "serial", "other"}

\* "Resource busy" in str(e), for a SerialException e
IsAnySerialError(o) == o \in {"busy", "serial"}
IsResourceBusy(o) == o = "busy"

\* Lines 206-207 and 214-215: the open succeeded.
Opened ==
    /\ global_serial' = Serial(port)
    /\ liveHandles' = liveHandles + 1
    /\ retry_count' = 0
    /\ consecFail' = 0
    /\ pc' = "read"

\* Lines 199-217, first attempt: reclaim on macOS, then open; "Resource
\* busy" calls force_close_port and goes on to the second attempt, any
\* other SerialException is raised again.
OpenFirst ==
    /\ phase = "running"
    /\ pc = "open" \/ (pc = "top" /\ NeedConnect /\ port # None)
    /\ \E o \in OpenOutcomes :
          /\ openLog' = Append(openLog, o)
          /\ CASE o = "ok" ->
                    /\ Opened
                    /\ reclaims' = reclaims + (IF darwin THEN 1 ELSE 0)
               [] o = "other" ->
                    /\ pc' = "exc_other"
                    /\ reclaims' = reclaims + (IF darwin THEN 1 ELSE 0)
                    /\ UNCHANGED <<global_serial, liveHandles, retry_count, consecFail>>
               [] o \in {"busy", "serial"} /\ IsResourceBusy(o) ->
                    /\ pc' = "retry"
                    /\ reclaims' = reclaims + (IF darwin THEN 2 ELSE 1)
                    /\ UNCHANGED <<global_serial, liveHandles, retry_count, consecFail>>
               [] o \in {"busy", "serial"} /\ ~IsResourceBusy(o) ->
                    /\ pc' = "exc_serial"
                    /\ reclaims' = reclaims + (IF darwin THEN 1 ELSE 0)
                    /\ UNCHANGED <<global_serial, liveHandles, retry_count, consecFail>>
    /\ UNCHANGED <<port, line, fanVars, envVars, resolves>>

\* Line 213: the one further attempt after force_close_port; what it raises
\* leaves the inner handler.
OpenRetry ==
    /\ phase = "running" /\ pc = "retry"
    /\ \E o \in OpenOutcomes :
          /\ openLog' = Append(openLog, o)
          /\ CASE o = "ok" -> Opened
               [] o \in {"busy", "serial"} ->
                    /\ pc' = "exc_serial"
                    /\ UNCHANGED <<global_serial, liveHandles, retry_count, consecFail>>
               [] o = "other" ->
                    /\ pc' = "exc_other"
                    /\ UNCHANGED <<global_serial, liveHandles, retry_count, consecFail>>
    /\ UNCHANGED <<port, line, fanVars, envVars, reclaims, resolves>>

\* Lines 219-220: in_waiting and readline on the open handle. Either may
\* raise; in_waiting may be 0; otherwise a line is read.
ReadOutcomes == {"serial", "other", "nothing", "line"}

Read ==
    /\ phase = "running"
    /\ pc = "read" \/ (pc = "top" /\ ~NeedConnect)
    /\ \E o \in ReadOutcomes :
          CASE o = "serial" -> pc' = "exc_serial" /\ line' = line
            [] o = "other" -> pc' = "exc_other" /\ line' = line
            [] o = "nothing" -> pc' = "sleep" /\ line' = line
            [] o = "line" ->
                 /\ pc' = "process"
                 /\ \E l \in Lines :
                       /\ l \in GoodLines => Len(events) < MaxReads
                       /\ line' = l
    /\ openLog' = <<>> /\ reclaims' = 0 /\ resolves' = 0
    /\ UNCHANGED <<devVars, fanVars, envVars, consecFail>>

\* Lines 124-131, from the point where the list iterator is asked for its
\* next element, at position idx, with the connections in failed
\* collected so far: either the next send starts, or the loop is over and
\* the collected connections are disconnected. A ValueError from disconnect
\* is caught in send_data (line 231), which goes on to its short sleep.
BroadcastStep(idx, failed) ==
    IF idx <= Len(active_connections)
    THEN /\ connection' = active_connections[idx]
         /\ bidx' = idx + 1
         /\ to_remove' = failed
         /\ pc' = "send"
         /\ UNCHANGED active_connections
    ELSE /\ active_connections' = Prune(active_connections, failed).list
         /\ connection' = NoConnection
         /\ bidx' = 1
         /\ to_remove' = <<>>
         /\ pc' = "sleep"

\* Lines 221-234 up to the first send of broadcast: decode, parse,
\* threshold. A ValueError is printed and the line dropped.
Process ==
    /\ phase = "running" /\ pc = "process"
    /\ LET r == ProcessLine(line)
       IN  IF r.kind = "ValueError"
           THEN /\ pc' = "sleep"
                /\ UNCHANGED fanVars
           ELSE /\ message' = r.msg
                /\ events' = Append(events, r.msg)
                /\ passStart' = active_connections
                /\ passSent' = {}
                /\ passFailed' = {}
                /\ disturbed' = FALSE
                /\ BroadcastStep(1, <<>>)
                /\ UNCHANGED recv
    /\ UNCHANGED <<devVars, line, envVars, consecFail, iterVars>>

\* Lines 125-129: the send in flight ends; send_text raises when the peer
\* has closed the connection. Then the loop goes on.
SendDone ==
    /\ phase = "running" /\ pc = "send"
    /\ IF conn[connection] = "open"
       THEN /\ recv' = [recv EXCEPT ![connection] = Append(@, message)]
            /\ passSent' = passSent \cup {connection}
            /\ passFailed' = passFailed
            /\ BroadcastStep(bidx, to_remove)
       ELSE /\ recv' = recv
            /\ passSent' = passSent
            /\ passFailed' = passFailed \cup {connection}
            /\ BroadcastStep(bidx, Append(to_remove, connection))
    /\ UNCHANGED <<devVars, line, message, events, passStart, disturbed,
                   envVars, consecFail, iterVars>>

\* Line 236: await asyncio.sleep(0.01) is over; the next iteration starts.
Sleep ==
    /\ phase = "running" /\ pc = "sleep"
    /\ pc' = "top"
    /\ line' = NoLine /\ message' = NoMessage
    /\ passStart' = <<>> /\ passSent' = {} /\ passFailed' = {}
    /\ disturbed' = FALSE
    /\ UNCHANGED <<devVars, bidx, connection, to_remove, active_connections,
                   recv, events, envVars, consecFail, iterVars>>

\* Lines 240-242 and 255-257: close the handle if open, forget it.
DropHandleWithoutClose ==
    /\ global_serial' = NoSerial
    /\ liveHandles' = liveHandles
DropHandle ==
    /\ global_serial' = NoSerial
    /\ liveHandles' =
          liveHandles - (IF global_serial.ref /\ global_serial.is_open
                         THEN 1 ELSE 0)

\* Lines 238-250: a SerialException left the try.
ExceptSerial ==
    /\ phase = "running" /\ pc = "exc_serial"
    /\ DropHandle
    /\ IF RetryLimitReached(retry_count + 1)
       THEN port' = None /\ retry_count' = 0
       ELSE port' = port /\ retry_count' = retry_count + 1
    /\ consecFail' = consecFail + 1
    /\ pc' = "backoff"
    /\ openLog' = <<>> /\ reclaims' = 0 /\ resolves' = 0
    /\ UNCHANGED <<line, fanVars, envVars>>

\* Lines 253-257: any other exception left the try.
ExceptOtherEndsTask ==
    /\ phase = "running" /\ pc = "exc_other"
    /\ DropHandle
    /\ pc' = "dead"
    /\ openLog' = <<>> /\ reclaims' = 0 /\ resolves' = 0
    /\ UNCHANGED <<port, retry_count, line, fanVars, envVars, consecFail>>
ExceptOther ==
    /\ phase = "running" /\ pc = "exc_other"
    /\ DropHandle
    /\ pc' = "backoff"
    /\ openLog' = <<>> /\ reclaims' = 0 /\ resolves' = 0
    /\ UNCHANGED <<port, retry_count, line, fanVars, envVars, consecFail>>

\* Lines 196-197, 251, 258: await asyncio.sleep(5) is over; the next
\* iteration starts.
Backoff ==
    /\ phase = "running" /\ pc \in {"backoff", "sleep_nf"}
    /\ pc' = "top"
    /\ openLog' = <<>> /\ reclaims' = 0 /\ resolves' = 0
    /\ UNCHANGED <<devVars, line, fanVars, envVars, consecFail>>

\* The arguments of asyncio.sleep, in hundredths of a second: 0.01 at the
\* end of an iteration (line 236), 5 when no port was found (line 196), 5
\* after a failure (lines 251 and 258).
iteration_sleep == 1
not_found_sleep == 500
failure_sleep == 500

\* How long the sleep the loop is suspended in lasts.
SleepDelay(p) ==
    CASE p = "sleep" -> iteration_sleep
      [] p = "sleep_nf" -> not_found_sleep
      [] p = "backoff" -> failure_sleep

Loop ==
    \/ Resolve \/ OpenFirst \/ OpenRetry \/ Read \/ Process \/ SendDone
    \/ Sleep \/ ExceptSerial \/ ExceptOther \/ Backoff

\* ------------------------------------------------------ connection handlers
\* send_data is suspended in an await: only then does the event loop run the
\* connection handlers.
Suspended == pc \in {"sleep", "sleep_nf", "backoff", "send"}

\* Lines 139-140: a client connects; the endpoint accepts it and registers
\* its WebSocket, then waits in receive_text. Connections are numbered in
\* the order in which they are made.
HandlerConnect(w) ==
    /\ phase = "running" /\ Suspended /\ hpc[w] = "idle"
    /\ \A v \in WS : v < w => hpc[v] # "idle"
    /\ active_connections' = connect(active_connections, w)
    /\ hpc' = [hpc EXCEPT ![w] = "receiving"]
    /\ regAt' = [regAt EXCEPT ![w] = Len(events)]
    /\ disturbed' = (disturbed \/ pc = "send")
    /\ UNCHANGED <<devVars, loopVars, darwin, conn, phase, recv, events,
                   passStart, passSent, passFailed, consecFail, iterVars,
                   sigOpen, shutdownCloses, harnessVars>>

\* The peer closes the connection (or the link breaks): from now on
\* send_text raises and receive_text raises WebSocketDisconnect.
PeerClose(w) ==
    /\ phase = "running" /\ hpc[w] = "receiving" /\ conn[w] = "open"
    /\ conn' = [conn EXCEPT ![w] = "closed"]
    /\ UNCHANGED <<devVars, loopVars, active_connections, darwin, hpc, phase,
                   obsVars, harnessVars>>

\* Lines 145-146: WebSocketDisconnect reaches the endpoint, which calls
\* disconnect; a ValueError from it ends the endpoint with that error. The
\* observations of a connection end with its endpoint.
HandlerDisconnect(w) ==
    /\ phase = "running" /\ Suspended
    /\ hpc[w] = "receiving" /\ conn[w] = "closed"
    /\ LET d == disconnect(active_connections, w)
       IN  /\ active_connections' = d.list
           /\ hpc' = [hpc EXCEPT ![w] = IF d.raised THEN "raised" ELSE "done"]
    /\ disturbed' = (disturbed \/ pc = "send")
    /\ recv' = [recv EXCEPT ![w] = <<>>]
    /\ regAt' = [regAt EXCEPT ![w] = 0]
    /\ UNCHANGED <<devVars, loopVars, darwin, conn, phase, events,
                   passStart, passSent, passFailed, consecFail, iterVars,
                   sigOpen, shutdownCloses, harnessVars>>

Handlers ==
    \E w \in WS : HandlerConnect(w) \/ PeerClose(w) \/ HandlerDisconnect(w)

\* ------------------------------------------------------------ process exit
\* exit(0) raises SystemExit out of the event loop: its tasks and their
\* frames are gone, and the observations of them end; what stays is the
\* module global.
TasksGone ==
    /\ port' = None /\ retry_count' = 0
    /\ pc' = "gone" /\ line' = NoLine /\ message' = NoMessage
    /\ bidx' = 1 /\ connection' = NoConnection /\ to_remove' = <<>>
    /\ active_connections' = <<>>
    /\ hpc' = [w \in WS |-> "gone"]
    /\ conn' = [w \in WS |-> "closed"]
    /\ recv' = [w \in WS |-> <<>>]
    /\ events' = <<>>
    /\ regAt' = [w \in WS |-> 0]
    /\ passStart' = <<>> /\ passSent' = {} /\ passFailed' = {}
    /\ disturbed' = FALSE
    /\ consecFail' = 0 /\ openLog' = <<>> /\ reclaims' = 0 /\ resolves' = 0

\* Lines 59-65: SIGINT or SIGTERM runs signal_handler: cleanup_serial, then
\* exit(0).
signal_handler ==
    /\ phase = "running"
    /\ LET c == cleanup_serial(global_serial)
       IN  /\ global_serial' = c.gs
           /\ shutdownCloses' = shutdownCloses + c.closes
           /\ liveHandles' = liveHandles - c.closes
    /\ sigOpen' = (global_serial.ref /\ global_serial.is_open)
    /\ phase' = "exiting"
    /\ TasksGone
    /\ UNCHANGED <<darwin, harnessVars>>

\* Lines 89-92, the shutdown half of the lifespan hook: the server is
\* shutting down, its connections are closed, and the hook cancels the
\* task of send_data, which is suspended in an await. CancelledError is a
\* BaseException: no handler of send_data catches it and the task ends.
\* Nothing else is done here.
lifespan ==
    /\ phase = "running" /\ Suspended
    /\ phase' = "stopped"
    /\ TasksGone
    /\ UNCHANGED <<global_serial, liveHandles, darwin, sigOpen,
                   shutdownCloses, harnessVars>>

\* Line 68: the interpreter runs the atexit hook, cleanup_serial, on exit.
AtExit ==
    /\ phase \in {"exiting", "stopped"}
    /\ LET c == cleanup_serial(global_serial)
       IN  /\ global_serial' = c.gs
           /\ shutdownCloses' = shutdownCloses + c.closes
           /\ liveHandles' = liveHandles - c.closes
    /\ phase' = "exited"
    /\ UNCHANGED <<port, retry_count, loopVars, regVars, darwin, recv, events,
                   regAt, passVars, consecFail, iterVars, sigOpen,
                   harnessVars>>

Next == Loop \/ Handlers \/ signal_handler \/ lifespan \/ AtExit

Spec == Init /\ [][Next]_vars

\* The event loop resumes send_data whenever the await it is suspended in
\* has completed, and the loop's own code between two awaits runs to the
\* next await: a step of the loop that stays possible is taken. Clients,
\* signals and the server's shutdown are under no such obligation.
\* The progress of the loop is checked with one client, which connects,
\* has its connection closed and is deregistered at any time.
LiveClients == {1}
HandlersLive ==
    \E w \in LiveClients :
        HandlerConnect(w) \/ PeerClose(w) \/ HandlerDisconnect(w)
NextLive == Loop \/ HandlersLive \/ signal_handler \/ lifespan \/ AtExit
SpecLive == Init /\ [][NextLive]_vars /\ WF_vars(Loop)

\* ------------------------------------------------ the decoder on its own
\* The loop holding a line it has just read, one connection registered:
\* every line of the range is decoded and broadcast.
SampleRange == (-MaxMag)..MaxMag
DecodeLines == {LineFor(v) : v \in SampleRange} \cup BadLines

InitDecode ==
    /\ global_serial = Serial("p1")
    /\ port = "p1"
    /\ retry_count = 0
    /\ pc = "process"
    /\ line \in DecodeLines
    /\ message = NoMessage
    /\ active_connections = <<1>>
    /\ bidx = 1
    /\ connection = NoConnection
    /\ to_remove = <<>>
    /\ darwin \in BOOLEAN
    /\ hpc = [w \in WS |-> IF w = 1 THEN "receiving" ELSE "idle"]
    /\ conn = [w \in WS |-> "open"]
    /\ phase = "running"
    /\ recv = [w \in WS |-> <<>>]
    /\ events = <<>>
    /\ regAt = [w \in WS |-> 0]
    /\ passStart = <<>>
    /\ passSent = {}
    /\ passFailed = {}
    /\ disturbed = FALSE
    /\ consecFail = 0
    /\ openLog = <<>>
    /\ reclaims = 0
    /\ resolves = 0
    /\ sigOpen = FALSE
    /\ shutdownCloses = 0
    /\ ops = <<>>
    /\ before = <<>>
    /\ liveHandles = 1
    /\ comports = <<>>

NextDecode == Process \/ SendDone

SpecDecode == InitDecode /\ [][NextDecode]_vars

\* --------------------------------------------- the registry on its own
\* A ConnectionManager driven directly: connect and disconnect called with
\* any connection, in any order.
LastOp == IF ops = <<>> THEN <<>> ELSE <<ops[Len(ops)]>>

RegistryConnect(w) ==
    /\ Len(active_connections) < MaxReg
    /\ active_connections' = connect(active_connections, w)
    /\ before' = active_connections
    /\ ops' = LastOp \o <<[op |-> "connect", ws |-> w]>>
    /\ UNCHANGED <<devVars, loopVars, hpc, conn, darwin, phase, obsVars,
                   comports>>

RegistryDisconnect(w) ==
    /\ active_connections' = disconnect(active_connections, w).list
    /\ before' = before
    /\ ops' = LastOp \o <<[op |-> "disconnect", ws |-> w]>>
    /\ UNCHANGED <<devVars, loopVars, hpc, conn, darwin, phase, obsVars,
                   comports>>

NextRegistry == \E w \in WS : RegistryConnect(w) \/ RegistryDisconnect(w)

SpecRegistry == Init /\ [][NextRegistry]_vars

\* --------------------------------------------- the resolver on its own
\* find_emg_port called by the loop on any enumeration of up to MaxPorts
\* entries, with devices named by position and any of these descriptions.
DevNames == <<"p1", "p2", "p3", "p4", "p5", "p6">>
Descriptions ==
    { <<"U", "S", "B">>,
      <<"u", "s", "b">>,
      <<"n", "/", "a">>,
      <<"x", "C", "P", "2", "1", "0", "2">>,
      <<"S", "e", "r", "i", "a">> }
AllEnumerations ==
    UNION { { [i \in 1..n |-> [device |-> DevNames[i], description |-> f[i]]] :
                f \in [1..n -> Descriptions] } : n \in 0..MaxPorts }

InitResolver ==
    /\ global_serial = NoSerial
    /\ port = None
    /\ retry_count = 0
    /\ pc = "top"
    /\ line = NoLine
    /\ message = NoMessage
    /\ active_connections = <<>>
    /\ bidx = 1
    /\ connection = NoConnection
    /\ to_remove = <<>>
    /\ darwin = FALSE
    /\ hpc = [w \in WS |-> "idle"]
    /\ conn = [w \in WS |-> "open"]
    /\ phase = "running"
    /\ recv = [w \in WS |-> <<>>]
    /\ events = <<>>
    /\ regAt = [w \in WS |-> 0]
    /\ passStart = <<>>
    /\ passSent = {}
    /\ passFailed = {}
    /\ disturbed = FALSE
    /\ consecFail = 0
    /\ openLog = <<>>
    /\ reclaims = 0
    /\ resolves = 0
    /\ sigOpen = FALSE
    /\ shutdownCloses = 0
    /\ ops = <<>>
    /\ before = <<>>
    /\ liveHandles = 0
    /\ comports \in AllEnumerations

NextResolver == ResolveFrom(comports)

SpecResolver == InitResolver /\ [][NextResolver]_vars

\* ------------------------------------------------------------------ claims
Range(seq) == {seq[i] : i \in 1..Len(seq)}
Occurrences(seq, x) == Cardinality({i \in 1..Len(seq) : seq[i] = x})
Without(seq, x) == SelectSeq(seq, LAMBDA y : y # x)
IsSuffix(t, seq) ==
    /\ Len(t) <= Len(seq)
    /\ SubSeq(seq, Len(seq) - Len(t) + 1, Len(seq)) = t
ExpectedFrame(v) == IF v > 100 THEN <<"1">> ELSE <<"0">>
\* Where the loop is after a resolve, open or read that failed.
FailureHandling == {"sleep_nf", "retry", "exc_serial", "exc_other", "backoff"}
\* Some slice of the description is one of the identifiers.
Marked(description) ==
    \E i \in 1..Len(description) : \E j \in i..Len(description) :
        SubSeq(description, i, j) \in common_identifiers

\* C1: for every integer v on a well-formed line, the frame broadcast for
\* the line is "1" if v > 100 and "0" otherwise (so "0" for v = 100 and for
\* every negative v), and the line is not dropped.
C1_ThresholdEvent ==
    \A v \in SampleRange :
        line = LineFor(v) =>
            /\ pc \in {"process", "send", "sleep"}
            /\ pc = "send" => message = ExpectedFrame(v) /\ connection = 1
            /\ pc = "sleep" => recv[1] = <<ExpectedFrame(v)>>

C1_Witness ==
    /\ pc = "sleep"
    /\ line = LineFor(101)
    /\ recv[1] = << <<"1">> >>

\* C2: at the end of a pass, a connection that is registered and whose
\* sends succeed has received one frame for every sample read since it
\* registered, in the order read.
C2_OneFramePerSample ==
    \A w \in WS :
        (/\ pc \in {"sleep", "top"}
         /\ InList(active_connections, w)
         /\ conn[w] = "open")
        => IsSuffix(SubSeq(events, regAt[w] + 1, Len(events)), recv[w])

\* C3: a pass during which no handler changes the registry, over the
\* registry N with F the connections whose send failed, leaves the registry
\* equal to N without F, in the order of N, and has sent to all of N \ F.
C3_PublishRemovesExactlyFailed ==
    [][ (pc = "send" /\ pc' = "sleep" /\ ~disturbed) =>
            LET N == Range(passStart)
                F == passFailed'
            IN  /\ passSent' = N \ F
                /\ active_connections' = SelectSeq(passStart, LAMBDA x : x \notin F)
      ]_vars

C3_Witness ==
    /\ pc = "sleep" /\ ~disturbed
    /\ passStart = <<1, 2>>
    /\ passFailed = {1}
    /\ passSent = {2}
    /\ active_connections = <<2>>
    /\ recv[2] # <<>>

\* C4: counting the failures handled as serial errors since the port was
\* bound or last opened, the first and the second leave the bound port as
\* it is, the third clears it; an open is only attempted on a bound port,
\* and a port is only bound by a call of the resolver.
C4_ThirdFailureClearsPort ==
    /\ [](consecFail <= 3)
    /\ [][ (pc = "exc_serial" /\ pc' = "backoff") =>
              /\ consecFail' \in {1, 2} => (port # None /\ port' = port)
              /\ consecFail' = 3 => port' = None
         ]_vars
    /\ [][ Len(openLog') > Len(openLog) => (port # None /\ port' = port) ]_vars
    /\ [][ (port = None /\ port' # None) => resolves' = resolves + 1 ]_vars

C4_Witness ==
    /\ pc = "backoff"
    /\ consecFail = 3
    /\ port = None

\* C5: processing a malformed line sends nothing, leaves the handle, the
\* bound port and the counter as they are and ends in the short sleep of
\* the iteration, from which the loop goes to its next iteration; a
\* well-formed line read then is broadcast as usual.
C5_MalformedLineDropped ==
    /\ [][ (pc = "process" /\ pc' \notin {"process", "gone"} /\ line \in BadLines) =>
              /\ pc' = "sleep"
              /\ UNCHANGED <<global_serial, port, retry_count, recv, events,
                             active_connections, consecFail>>
         ]_vars
    /\ [][ (pc = "sleep" /\ pc' \notin {"sleep", "gone"}) =>
              (pc' = "top" /\ UNCHANGED <<global_serial, port, retry_count>>)
         ]_vars
    /\ [][ (pc = "process" /\ pc' \notin {"process", "gone"}) =>
              \A v \in GoodSamples :
                  line = LineFor(v) =>
                      /\ message' = ExpectedFrame(v)
                      /\ events' = Append(events, ExpectedFrame(v))
         ]_vars

C5_Witness ==
    /\ pc = "sleep"
    /\ line \in BadLines
    /\ global_serial.is_open
    /\ events = <<>>

\* C6: only a first open that failed with "Resource busy" is followed by
\* a second one, after force_close_port, and there is no third; a second
\* open that succeeds leads to reading with the counter at zero, one that
\* fails with a serial error is handled as one failure (the counter counts
\* it once, one backoff); no frame is sent by any of these steps.
C6_BusyRetriedOnce ==
    /\ [](Len(openLog) <= 2 /\ (Len(openLog) = 2 => openLog[1] = "busy"))
    /\ [](pc = "retry" =>
             openLog = <<"busy">> /\ reclaims = 1 + (IF darwin THEN 1 ELSE 0))
    /\ [](openLog = <<"busy">> => pc = "retry")
    /\ [](openLog = <<"serial">> => pc = "exc_serial")
    /\ [][ Len(openLog') > Len(openLog) => recv' = recv ]_vars
    /\ [][ (pc = "retry" /\ pc' \notin {"retry", "gone"}) =>
              /\ Len(openLog') = 2
              /\ openLog'[2] = "ok" =>
                    (pc' = "read" /\ retry_count' = 0
                     /\ global_serial' = Serial(port))
              /\ openLog'[2] \in {"busy", "serial"} =>
                    (pc' = "exc_serial" /\ UNCHANGED devVars)
         ]_vars
    /\ [][ (pc = "exc_serial" /\ pc' \notin {"exc_serial", "gone"}) =>
              /\ pc' = "backoff"
              /\ recv' = recv
              /\ \/ retry_count' = retry_count + 1
                 \/ retry_count = 2 /\ retry_count' = 0
         ]_vars

C6_Witness ==
    /\ pc = "read"
    /\ openLog = <<"busy", "ok">>
    /\ retry_count = 0
    /\ global_serial.is_open

\* C7: every frame a connection has been sent is the text "0" or "1".
C7_FramesAreBits ==
    \A w \in WS : \A i \in 1..Len(recv[w]) : recv[w][i] \in {<<"0">>, <<"1">>}

C7_Witness ==
    /\ hpc[1] = "raised"
    /\ recv[2] # <<>>

\* C8: after connect(s) twice with no disconnect between, the registry
\* holds s exactly once.
C8_AddTwiceHoldsOnce ==
    \A w \in WS :
        ops = <<[op |-> "connect", ws |-> w], [op |-> "connect", ws |-> w]>>
        => Occurrences(active_connections, w) = 1

\* C9: after connect(s) followed by disconnect(s) the registry does not
\* hold s, and the other connections are as before, in the same order.
C9_AddThenRemove ==
    \A w \in WS :
        ops = <<[op |-> "connect", ws |-> w], [op |-> "disconnect", ws |-> w]>>
        => /\ ~InList(active_connections, w)
           /\ Without(active_connections, w) = Without(before, w)

\* C10: when the signal comes while the handle is open, cleanup_serial,
\* run by the signal handler and again by the atexit hook, calls close once
\* in all, and the handle is not open when the process has exited.
C10_ClosedOnceAtExit ==
    (phase \in {"exiting", "exited"} /\ sigOpen) =>
        /\ shutdownCloses = 1
        /\ ~global_serial.is_open

C10_Witness ==
    /\ phase = "exited"
    /\ sigOpen
    /\ shutdownCloses = 1

\* C11: once the shutdown half of the lifespan hook has completed, the
\* loop takes no further step and no serial handle is open.
C11_StopReleasesHandle ==
    phase = "stopped" =>
        /\ pc = "gone"
        /\ ~(global_serial.ref /\ global_serial.is_open)
        /\ liveHandles = 0

\* C12: at most one Serial object is open at any time, and it is the one
\* global_serial refers to; while the loop runs, global_serial is either
\* None or an open handle on the port bound in the loop, which is a port
\* the resolver returned and never None.
C12_OneOpenHandle ==
    /\ liveHandles \in {0, 1}
    /\ liveHandles = 1 <=> (global_serial.ref /\ global_serial.is_open)
    /\ phase = "running" =>
          (global_serial.ref =>
              /\ global_serial.is_open
              /\ port # None
              /\ port \in Ports
              /\ global_serial.port = port)

C12_Witness ==
    /\ phase = "running" /\ pc = "top"
    /\ global_serial.ref /\ global_serial.is_open
    /\ global_serial.port = "p2"
    /\ retry_count = 0
    /\ liveHandles = 1

\* C13: find_emg_port returns the device of the first entry, in the order
\* of the enumeration, whose description has one of the identifiers as a
\* substring, case-sensitively, when there is such an entry; otherwise the
\* device of the first entry when there is one; and None exactly when the
\* enumeration is empty.
C13_ResolverChoice ==
    (pc # "top") =>
        LET M == {i \in 1..Len(comports) : Marked(comports[i].description)}
        IN  /\ (port = None) <=> (Len(comports) = 0)
            /\ M # {} =>
                  \E i \in M : /\ \A j \in M : i <= j
                               /\ port = comports[i].device
            /\ (M = {} /\ Len(comports) > 0) => port = comports[1].device
            /\ \A i \in 1..Len(comports) :
                  comports[i].description = <<"u", "s", "b">> => i \notin M

C13_Witness ==
    /\ pc = "open"
    /\ Len(comports) = 3
    /\ comports[1].description = <<"u", "s", "b">>
    /\ comports[2].description = <<"x", "C", "P", "2", "1", "0", "2">>
    /\ comports[3].description = <<"U", "S", "B">>
    /\ port = "p2"

\* C14: when a pass ends, every connection that was registered when it
\* started, that is still registered and whose sends work, has been sent
\* the message in that pass, also when handlers registered or deregistered
\* connections while the pass was suspended in a send.
C14_PassOverSnapshot ==
    [][ (pc = "send" /\ pc' = "sleep") =>
            \A w \in Range(passStart) :
                (InList(active_connections', w) /\ conn[w] = "open")
                => w \in passSent'
      ]_vars

\* C15: every failure that makes the loop drop the handle and back off,
\* a serial error or any other error, increments retry_count (which is
\* set back to zero when it reaches max_retries).
C15_EveryFailureCounted ==
    [][ (pc \in {"exc_serial", "exc_other"} /\ pc' = "backoff") =>
            \/ retry_count' = retry_count + 1
            \/ (retry_count + 1 = max_retries /\ retry_count' = 0)
      ]_vars

\* C16: while the process runs and the task is not cancelled, the loop
\* always comes back to the start of an iteration, whatever happened (no
\* port found, open or read failure, malformed line, failed send), and the
\* iteration it starts there resolves, opens or reads; and if from some
\* point on no resolve, open or read fails, then from some point on the
\* handle is open for good.
C16_LoopNeverStuck ==
    /\ (phase = "running" /\ pc # "top") ~> (pc = "top" \/ phase # "running")
    /\ (phase = "running" /\ pc = "top") ~> (pc # "top" \/ phase # "running")
    /\ [][ (pc = "top" /\ pc' # "top" /\ phase' = "running") =>
              \/ resolves' = 1 /\ pc' \in {"open", "sleep_nf"}
              \/ Len(openLog') = 1 /\ pc' \in {"read", "retry", "exc_serial", "exc_other"}
              \/ /\ global_serial.ref /\ global_serial.is_open
                 /\ pc' \in {"process", "sleep", "exc_serial", "exc_other"}
         ]_vars
    /\ (<>[](phase = "running" /\ pc \notin FailureHandling))
          => <>[](phase = "running" /\ global_serial.ref /\ global_serial.is_open)

C16_Witness ==
    /\ phase = "running" /\ pc = "top"
    /\ retry_count = 2
    /\ port # None
    /\ ~global_serial.ref

\* C17: find_emg_port is called only when no handle is open and no port is
\* bound; Serial() and force_close_port are called only when no handle is
\* open; an iteration that starts with an open handle goes straight to
\* reading, with the handle and the port as they are; and one that starts
\* without a handle but with a bound port opens that port without calling
\* find_emg_port.
C17_ConnectOnlyWhenNeeded ==
    /\ [][ resolves' > resolves =>
              (~(global_serial.ref /\ global_serial.is_open) /\ port = None)
         ]_vars
    /\ [][ (Len(openLog') > Len(openLog) \/ reclaims' > reclaims) =>
              ~(global_serial.ref /\ global_serial.is_open)
         ]_vars
    /\ [][ (/\ pc = "top" /\ pc' # "top" /\ phase' = "running"
            /\ global_serial.ref /\ global_serial.is_open) =>
              /\ resolves' = 0 /\ openLog' = <<>> /\ reclaims' = 0
              /\ UNCHANGED <<global_serial, port>>
              /\ pc' \in {"process", "sleep", "exc_serial", "exc_other"}
         ]_vars
    /\ [][ (/\ pc = "top" /\ pc' # "top" /\ phase' = "running"
            /\ ~global_serial.ref /\ port # None) =>
              /\ resolves' = resolves
              /\ port' = port
              /\ Len(openLog') = 1
         ]_vars

C17_Witness ==
    /\ phase = "running" /\ pc = "process"
    /\ global_serial.ref /\ global_serial.is_open
    /\ events # <<>>
    /\ line \in BadLines
    /\ openLog = <<>> /\ resolves = 0 /\ reclaims = 0

\* C18: the sleep before the next attempt lasts 5 seconds after a failure
\* of the connection, and strictly less than that after find_emg_port
\* found no port.
C18_ShorterDelayWhenNotFound ==
    /\ pc = "backoff" => SleepDelay(pc) = 500
    /\ pc = "sleep_nf" => SleepDelay(pc) < SleepDelay("backoff")

\* C19: disconnect is never called for a connection that is not in the
\* registry: neither the endpoint of a connection nor the second loop of
\* broadcast gets a ValueError from it.
C19_NoRemoveOfAbsent ==
    /\ [](\A w \in WS : hpc[w] # "raised")
    /\ [][ (pc = "send" /\ pc' = "sleep") =>
              ~Prune(active_connections,
                     IF conn[connection] = "open"
                     THEN to_remove
                     ELSE Append(to_remove, connection)).raised
         ]_vars

\* C20: when a pass ends, no connection whose send failed in that pass is
\* in the registry, also when one of them was deregistered by its endpoint
\* during the pass.
C20_FailedAreGone ==
    [][ (pc = "send" /\ pc' = "sleep") =>
            \A w \in passFailed' : ~InList(active_connections', w)
      ]_vars

====
